---- MODULE Spec2Model ----
(***************************************************************************)
(* FWhiteNoiseCSManager (ComputeShaderDeclaration.cpp): a game thread that *)
(* calls UpdateParameters / BeginRendering / EndRendering on the manager   *)
(* singleton, the engine's render-command queue, and the render thread     *)
(* that runs each queued command, i.e. UpdateResults, line by line.        *)
(* The manager's fields are shared by both threads without any lock, so    *)
(* every load and store of them is a step of its own.                      *)
(***************************************************************************)
EXTENDS Integers, Sequences, FiniteSets, TLC

\* ------------------------------------------------------------------ bounds
MaxFrames == 2      \* BeginRendering calls in one behaviour
MaxDim == 65        \* largest render-target extent drawn by InitCS

\* --------------------------------------------------------------- constants
NUM_THREADS_PER_GROUP_DIMENSION == 32

\* Preprocessor defines handed to the HLSL shader.
ModifyCompilationEnvironment ==
    [ THREADGROUPSIZE_X |-> NUM_THREADS_PER_GROUP_DIMENSION,
      THREADGROUPSIZE_Y |-> NUM_THREADS_PER_GROUP_DIMENSION,
      THREADGROUPSIZE_Z |-> 1 ]

\* ------------------------------------------------------------------ values
NullRT == "nullptr"
RenderTargets == {"RT_A", "RT_B"}

\* FWhiteNoiseCSParameters as UpdateResults uses it: the RenderTarget pointer
\* and the FIntPoint returned by GetRenderTargetSize().
MkParams(rt, x, y) == [RenderTarget |-> rt, SizeX |-> x, SizeY |-> y]

\* The parameter structs the game thread passes to UpdateParameters.
ParamChoices ==
    { MkParams(NullRT, 0, 0), MkParams("RT_A", 33, 32), MkParams("RT_B", 64, 1) }

\* RenderTarget->GetRenderTargetResource()->GetRenderTargetTexture()
GetRenderTargetTexture(rt) == <<"Texture", rt>>
\* RenderTarget->GetRenderTargetResource()->TextureRHI->GetFormat()
GetFormat(rt) == <<"Format">>

\* Elements of GRenderTargetPool: FindFreeElement hands out the free element
\* matching the descriptor; each element holds two texture references.
FindFreeElement(extent, format) == << "PoolItem", extent, format >>
RenderTargetItem(item) ==
    [ TargetableTexture |-> <<"Targetable", item>>,
      ShaderResourceTexture |-> <<"ShaderResource", item>> ]

None == << >>
NoThread == "none"
NoParams == MkParams(NullRT, 0, 0)
NoCommand == [valid |-> FALSE, params |-> NoParams]

\* FMath::DivideAndRoundUp as called at lines 118-119 (int32 operands; the
\* extents of a texture are far below the range where the sum would wrap).
DivideAndRoundUp_Floor(Dividend, Divisor) == Dividend \div Divisor
DivideAndRoundUp(Dividend, Divisor) == (Dividend + Divisor - 1) \div Divisor

\* ------------------------------------------------------------------- state
VARIABLES
    bCachedParamsAreValid,  \* manager field
    cachedParams,           \* manager field
    gpc,                    \* game thread: "idle" or "UpdateParameters"
    argParams,              \* argument of the current / last UpdateParameters
    pendingWrites,          \* stores of UpdateParameters not yet performed
    queue,                  \* render-command queue (FIFO)
    pc,                     \* render thread: "idle", a line of UpdateResults, "crashed"
    cur,                    \* the command being executed
    runner,                 \* thread executing the current command
    loc,                    \* locals of UpdateResults
    count,                  \* how often each effect happened
    steps,                  \* effects of the current UpdateResults, in order
    dispatches,             \* the dispatches of the current UpdateResults
    copies,                 \* the copies of the current UpdateResults
    hist                    \* history: ended, overlap, nullDeref, assertFailed

vars == << bCachedParamsAreValid, cachedParams, gpc, argParams, pendingWrites,
           queue, pc, cur, runner, loc, count, steps, dispatches, copies, hist >>

managerVars == << bCachedParamsAreValid, cachedParams >>
gameVars == << gpc, argParams, pendingWrites >>
renderVars == << pc, cur, runner, loc, steps, dispatches, copies >>

NoLocals ==
    [ OutTexture |-> None, Extent |-> None, Format |-> None,
      PooledCustomTexture |-> None, CustomTexture |-> None,
      OutputTexture |-> None, ThreadGroupCount |-> << >>,
      Passes |-> << >> ]

NoCounts ==
    [ BeginRendering |-> 0, Enqueued |-> 0, UpdateResults |-> 0, Skipped |-> 0,
      FindFreeElement |-> 0, AddPass |-> 0, Dispatch |-> 0, CopyTexture |-> 0 ]

NoHist ==
    [ ended |-> FALSE, overlap |-> FALSE,
      nullDeref |-> FALSE, assertFailed |-> FALSE ]

Running == pc \notin {"idle", "crashed"}

\* The manager is constructed with bCachedParamsAreValid false and no
\* parameters cached.
Init ==
    /\ bCachedParamsAreValid = FALSE
    /\ cachedParams = NoParams
    /\ gpc = "idle"
    /\ argParams = NoParams
    /\ pendingWrites = {}
    /\ queue = << >>
    /\ pc = "idle"
    /\ cur = NoCommand
    /\ runner = NoThread
    /\ loc = NoLocals
    /\ count = NoCounts
    /\ steps = << >>
    /\ dispatches = << >>
    /\ copies = << >>
    /\ hist = NoHist

\* ------------------------------------------------------------- game thread

\* What the lambda of BeginRendering captures: nothing ([]). The record only
\* remembers the manager's fields at the time of the enqueue.
CaptureCommand == [valid |-> bCachedParamsAreValid, params |-> cachedParams]

\* ENQUEUE_RENDER_COMMAND: the commands one BeginRendering call enqueues.
BeginRendering_Twice ==
    /\ gpc = "idle" /\ pc # "crashed"
    /\ count.BeginRendering < MaxFrames
    /\ queue' = queue \o << CaptureCommand, CaptureCommand >>
    /\ count' = [count EXCEPT !.BeginRendering = @ + 1, !.Enqueued = @ + 2]
    /\ hist' = [hist EXCEPT !.ended = FALSE]
    /\ UNCHANGED << managerVars, gameVars, renderVars >>

BeginRendering ==
    /\ gpc = "idle" /\ pc # "crashed"
    /\ count.BeginRendering < MaxFrames
    /\ queue' = Append(queue, CaptureCommand)
    /\ count' = [count EXCEPT !.BeginRendering = @ + 1, !.Enqueued = @ + 1]
    /\ hist' = [hist EXCEPT !.ended = FALSE]
    /\ UNCHANGED << managerVars, gameVars, renderVars >>

\* The body of EndRendering is empty.
EndRendering ==
    /\ gpc = "idle" /\ pc # "crashed"
    /\ hist' = [hist EXCEPT !.ended = TRUE]
    /\ UNCHANGED << managerVars, gameVars, renderVars, queue, count >>

\* The stores of UpdateParameters: the struct copy (pointer, size) and the flag.
UpdateParametersStores == {"RenderTarget", "Size", "bCachedParamsAreValid"}

UpdateParameters(params) ==
    /\ gpc = "idle" /\ pc # "crashed"
    /\ gpc' = "UpdateParameters"
    /\ argParams' = params
    /\ pendingWrites' = UpdateParametersStores
    /\ hist' = IF Running THEN [hist EXCEPT !.overlap = TRUE] ELSE hist
    /\ UNCHANGED << managerVars, renderVars, queue, count >>

\* One store of UpdateParameters reaches memory. Nothing orders the stores
\* for the render thread, so they become visible in any order.
UpdateParametersStore(w) ==
    /\ gpc = "UpdateParameters" /\ pc # "crashed"
    /\ w \in pendingWrites
    /\ pendingWrites' = pendingWrites \ {w}
    /\ gpc' = IF pendingWrites' = {} THEN "idle" ELSE gpc
    /\ cachedParams' =
         CASE w = "RenderTarget" ->
                [cachedParams EXCEPT !.RenderTarget = argParams.RenderTarget]
           [] w = "Size" ->
                [cachedParams EXCEPT !.SizeX = argParams.SizeX,
                                     !.SizeY = argParams.SizeY]
           [] OTHER -> cachedParams
    /\ bCachedParamsAreValid' =
         IF w = "bCachedParamsAreValid" THEN TRUE ELSE bCachedParamsAreValid
    /\ hist' = IF Running THEN [hist EXCEPT !.overlap = TRUE] ELSE hist
    /\ UNCHANGED << argParams, renderVars, queue, count >>

\* ----------------------------------------------------------- render thread

\* The thread that executes a command enqueued with ENQUEUE_RENDER_COMMAND.
CommandThread_Caller == "GameThread"
CommandThread == "RenderThread"

\* IsInRenderingThread(), for the thread running UpdateResults.
IsInRenderingThread == runner = "RenderThread"

\* The manager fields a running command reads: the lambda captured nothing
\* and goes through FWhiteNoiseCSManager::Get(), so it sees the live fields.
ManagerSeenBy_Captured(cmd) == cmd
ManagerSeenBy(cmd) == [valid |-> bCachedParamsAreValid, params |-> cachedParams]

\* The guard of line 81, one operand of the && at a time.
SkipOnFlag(valid) == ~valid
SkipOnRenderTarget_Never(rt) == FALSE
SkipOnRenderTarget(rt) == rt = NullRT

\* Statement order of UpdateResults after its guard; L131 is its closing brace.
Succ_CopyFirst(l) ==
    CASE l = "L87" -> "L90"   [] l = "L90" -> "L91"   [] l = "L91" -> "L92"
      [] l = "L92" -> "L107"  [] l = "L107" -> "L109" [] l = "L109" -> "L118"
      [] l = "L118" -> "L119" [] l = "L119" -> "L121" [] l = "L121" -> "L130"
      [] l = "L130" -> "L129" [] l = "L129" -> "L131"
Succ(l) ==
    CASE l = "L87" -> "L90"   [] l = "L90" -> "L91"   [] l = "L91" -> "L92"
      [] l = "L92" -> "L107"  [] l = "L107" -> "L109" [] l = "L109" -> "L118"
      [] l = "L118" -> "L119" [] l = "L119" -> "L121" [] l = "L121" -> "L129"
      [] l = "L129" -> "L130" [] l = "L130" -> "L131"

\* The render thread takes the next command off the queue and calls its
\* lambda, which calls UpdateResults.
RunCommand ==
    /\ pc = "idle" /\ queue # << >>
    /\ cur' = Head(queue)
    /\ queue' = Tail(queue)
    /\ runner' = CommandThread
    /\ pc' = "L81a"
    /\ count' = [count EXCEPT !.UpdateResults = @ + 1]
    /\ hist' = [hist EXCEPT !.overlap = (gpc # "idle")]
    /\ UNCHANGED << managerVars, gameVars, loc, steps, dispatches, copies >>

\* UpdateResults returns to the command queue: its locals are gone.
Return(skipped) ==
    /\ pc' = "idle"
    /\ cur' = NoCommand
    /\ runner' = NoThread
    /\ loc' = NoLocals
    /\ steps' = << >>
    /\ dispatches' = << >>
    /\ copies' = << >>
    /\ count' = [count EXCEPT !.Skipped = @ + skipped]
    /\ hist' = [hist EXCEPT !.overlap = FALSE, !.nullDeref = FALSE]
    /\ UNCHANGED << managerVars, gameVars, queue >>

Proceed(l) ==
    /\ pc' = l
    /\ UNCHANGED << managerVars, gameVars, queue, cur, runner, loc, steps,
                    dispatches, copies, hist, count >>

\* line 81, left operand: bCachedParamsAreValid
L81_Flag ==
    /\ pc = "L81a"
    /\ IF SkipOnFlag(ManagerSeenBy(cur).valid) THEN Return(1) ELSE Proceed("L81b")

\* line 81, right operand: cachedParams.RenderTarget
L81_RenderTarget ==
    /\ pc = "L81b"
    /\ IF SkipOnRenderTarget(ManagerSeenBy(cur).params.RenderTarget)
       THEN Return(1) ELSE Proceed("L87")

\* line 87: check(IsInRenderingThread()) aborts the process when it fails.
L87_Check ==
    /\ pc = "L87"
    /\ IF IsInRenderingThread
       THEN Proceed(Succ("L87"))
       ELSE /\ pc' = "crashed"
            /\ hist' = [hist EXCEPT !.assertFailed = TRUE]
            /\ UNCHANGED << managerVars, gameVars, queue, cur, runner, loc,
                            steps, dispatches, copies, count >>

\* A member call through a null RenderTarget (GetRenderTargetResource loads
\* a field of the object): the load from address 0 faults and the process dies.
NullDereference ==
    /\ hist' = [hist EXCEPT !.nullDeref = TRUE]
    /\ pc' = "crashed"
    /\ UNCHANGED << managerVars, gameVars, queue, cur, runner, loc, steps,
                    dispatches, copies, count >>

\* line 90: OutTexture = cachedParams.RenderTarget->...->GetRenderTargetTexture()
L90_OutTexture ==
    /\ pc = "L90"
    /\ LET rt == ManagerSeenBy(cur).params.RenderTarget IN
       IF rt = NullRT
       THEN NullDereference
       ELSE /\ loc' = [loc EXCEPT !.OutTexture = GetRenderTargetTexture(rt)]
            /\ pc' = Succ("L90")
            /\ UNCHANGED << managerVars, gameVars, queue, cur, runner, steps,
                            dispatches, copies, count, hist >>

\* line 91: TexDesc extent = cachedParams.GetRenderTargetSize()
L91_Extent ==
    /\ pc = "L91"
    /\ LET p == ManagerSeenBy(cur).params IN
       loc' = [loc EXCEPT !.Extent = << p.SizeX, p.SizeY >>]
    /\ pc' = Succ("L91")
    /\ UNCHANGED << managerVars, gameVars, queue, cur, runner, steps,
                    dispatches, copies, count, hist >>

\* line 92: TexDesc format = cachedParams.RenderTarget->...->GetFormat()
L92_Format ==
    /\ pc = "L92"
    /\ LET rt == ManagerSeenBy(cur).params.RenderTarget IN
       IF rt = NullRT
       THEN NullDereference
       ELSE /\ loc' = [loc EXCEPT !.Format = GetFormat(rt)]
            /\ pc' = Succ("L92")
            /\ UNCHANGED << managerVars, gameVars, queue, cur, runner, steps,
                            dispatches, copies, count, hist >>

\* lines 106-107: GRenderTargetPool.FindFreeElement hands out a pool item
\* matching TexDesc.
L107_FindFreeElement ==
    /\ pc = "L107"
    /\ loc' = [loc EXCEPT !.PooledCustomTexture =
                 FindFreeElement(loc.Extent, loc.Format)]
    /\ steps' = Append(steps, "FindFreeElement")
    /\ count' = [count EXCEPT !.FindFreeElement = @ + 1]
    /\ pc' = Succ("L107")
    /\ UNCHANGED << managerVars, gameVars, queue, cur, runner, dispatches,
                    copies, hist >>

\* lines 108-116: a fresh FRDGBuilder; the pooled item is registered by its
\* ERenderTargetTexture::ShaderResource texture, a UAV of it is created and
\* stored in PassParameters->OutputTexture.
L109_RegisterExternalTexture ==
    /\ pc = "L109"
    /\ LET tex == RenderTargetItem(loc.PooledCustomTexture).ShaderResourceTexture IN
       loc' = [loc EXCEPT !.Passes = << >>,
                          !.CustomTexture = tex,
                          !.OutputTexture = << "UAV", tex >>]
    /\ pc' = Succ("L109")
    /\ UNCHANGED << managerVars, gameVars, queue, cur, runner, steps,
                    dispatches, copies, count, hist >>

\* line 118: first component of ThreadGroupCount
L118_GroupCountX ==
    /\ pc = "L118"
    /\ loc' = [loc EXCEPT !.ThreadGroupCount =
                 << DivideAndRoundUp(ManagerSeenBy(cur).params.SizeX,
                                     NUM_THREADS_PER_GROUP_DIMENSION) >>]
    /\ pc' = Succ("L118")
    /\ UNCHANGED << managerVars, gameVars, queue, cur, runner, steps,
                    dispatches, copies, count, hist >>

\* line 119: second and third component of ThreadGroupCount
L119_GroupCountY ==
    /\ pc = "L119"
    /\ loc' = [loc EXCEPT !.ThreadGroupCount =
                 << loc.ThreadGroupCount[1],
                    DivideAndRoundUp(ManagerSeenBy(cur).params.SizeY,
                                     NUM_THREADS_PER_GROUP_DIMENSION),
                    1 >>]
    /\ pc' = Succ("L119")
    /\ UNCHANGED << managerVars, gameVars, queue, cur, runner, steps,
                    dispatches, copies, count, hist >>

\* lines 121-126: GraphBuilder.AddPass("ComputeWhiteNoise", ...)
L121_AddPass ==
    /\ pc = "L121"
    /\ loc' = [loc EXCEPT !.Passes =
                 Append(@, [ Name |-> "ComputeWhiteNoise",
                             OutputTexture |-> loc.OutputTexture,
                             ThreadGroupCount |-> loc.ThreadGroupCount ])]
    /\ steps' = Append(steps, "AddPass")
    /\ count' = [count EXCEPT !.AddPass = @ + 1]
    /\ pc' = Succ("L121")
    /\ UNCHANGED << managerVars, gameVars, queue, cur, runner, dispatches,
                    copies, hist >>

\* line 129: GraphBuilder.Execute() runs every pass of the graph; the pass
\* lambda is FComputeShaderUtils::Dispatch, writing through the pass's UAV.
L129_Execute ==
    /\ pc = "L129"
    /\ dispatches' = dispatches \o
         [ i \in 1..Len(loc.Passes) |->
             [ Pass |-> loc.Passes[i].Name,
               Written |-> loc.Passes[i].OutputTexture[2],
               ThreadGroupCount |-> loc.Passes[i].ThreadGroupCount,
               Extent |-> loc.Extent ] ]
    /\ steps' = Append(steps, "Execute") \o [ i \in 1..Len(loc.Passes) |-> "Dispatch" ]
    /\ count' = [count EXCEPT !.Dispatch = @ + Len(loc.Passes)]
    /\ pc' = Succ("L129")
    /\ UNCHANGED << managerVars, gameVars, queue, cur, runner, loc, copies, hist >>

\* line 130: RHICmdList.CopyTexture(pooled ShaderResourceTexture, OutTexture)
L130_CopyTexture ==
    /\ pc = "L130"
    /\ copies' = Append(copies,
         [ Source |-> RenderTargetItem(loc.PooledCustomTexture).ShaderResourceTexture,
           Dest |-> loc.OutTexture ])
    /\ steps' = Append(steps, "CopyTexture")
    /\ count' = [count EXCEPT !.CopyTexture = @ + 1]
    /\ pc' = Succ("L130")
    /\ UNCHANGED << managerVars, gameVars, queue, cur, runner, loc, dispatches, hist >>

\* line 131: the closing brace of UpdateResults
L131_Return ==
    /\ pc = "L131"
    /\ Return(0)

UpdateResults ==
    \/ L81_Flag \/ L81_RenderTarget \/ L87_Check \/ L90_OutTexture
    \/ L91_Extent \/ L92_Format \/ L107_FindFreeElement
    \/ L109_RegisterExternalTexture \/ L118_GroupCountX \/ L119_GroupCountY
    \/ L121_AddPass \/ L129_Execute \/ L130_CopyTexture \/ L131_Return

RenderThread == RunCommand \/ UpdateResults

GameThread ==
    \/ BeginRendering
    \/ EndRendering
    \/ \E params \in ParamChoices : UpdateParameters(params)
    \/ \E w \in UpdateParametersStores : UpdateParametersStore(w)

Next == GameThread \/ RenderThread

Spec == Init /\ [][Next]_vars

\* One frame with parameters of every extent up to MaxDim: the state after
\* UpdateParameters(params) and BeginRendering() have returned, from which the
\* render thread runs the command with no game-thread call in between.
InitCS ==
    /\ \E x \in 0..MaxDim, y \in 0..MaxDim :
         /\ cachedParams = MkParams("RT_A", x, y)
         /\ argParams = cachedParams
         /\ queue = << [valid |-> TRUE, params |-> cachedParams] >>
    /\ bCachedParamsAreValid = TRUE
    /\ gpc = "idle"
    /\ pendingWrites = {}
    /\ pc = "idle"
    /\ cur = NoCommand
    /\ runner = NoThread
    /\ loc = NoLocals
    /\ count = [NoCounts EXCEPT !.BeginRendering = 1, !.Enqueued = 1]
    /\ steps = << >>
    /\ dispatches = << >>
    /\ copies = << >>
    /\ hist = NoHist

SpecCS == InitCS /\ [][RenderThread]_vars

\* ------------------------------------------------------------------ claims

PastGuard ==
    { "L87", "L90", "L91", "L92", "L107", "L109", "L118", "L119", "L121",
      "L129", "L130", "L131" }

\* C1: every BeginRendering call enqueues exactly one command, every command
\* taken off the queue calls UpdateResults exactly once, and once the queue
\* is drained with no call skipped by the guard, the number of dispatches and
\* the number of copies both equal the number of BeginRendering calls; at no
\* time are there more dispatches than calls or more copies than dispatches.
C1_OnePerFrame ==
    /\ count.Enqueued = count.BeginRendering
    /\ count.UpdateResults + Len(queue) = count.Enqueued
    /\ count.Dispatch <= count.UpdateResults
    /\ count.CopyTexture <= count.Dispatch
    /\ (pc = "idle" /\ queue = << >> /\ count.Skipped = 0) =>
         /\ count.Dispatch = count.BeginRendering
         /\ count.CopyTexture = count.BeginRendering

C1_Witness ==
    /\ pc = "idle" /\ queue = << >> /\ count.Skipped = 0
    /\ count.BeginRendering >= 2
    /\ count.Dispatch = count.BeginRendering
    /\ count.CopyTexture = count.BeginRendering

ExpectedSteps ==
    << "FindFreeElement", "AddPass", "Execute", "Dispatch", "CopyTexture" >>

\* C2: the effects of one UpdateResults occur in the order pool allocation,
\* AddPass, Execute with its dispatch, copy; the graph holds exactly the one
\* ComputeWhiteNoise pass; the copy's source is the pooled texture the
\* dispatch wrote to and its destination is the render target's texture.
C2_StepOrder ==
    /\ Len(steps) <= Len(ExpectedSteps)
    /\ steps = SubSeq(ExpectedSteps, 1, Len(steps))
    /\ dispatches # << >> =>
         /\ Len(loc.Passes) = 1
         /\ loc.Passes[1].Name = "ComputeWhiteNoise"
         /\ Len(dispatches) = 1
    /\ copies # << >> =>
         /\ Len(copies) = 1
         /\ Len(dispatches) = 1
         /\ copies[1].Source = dispatches[1].Written
         /\ copies[1].Source =
              RenderTargetItem(loc.PooledCustomTexture).ShaderResourceTexture
         /\ \E rt \in RenderTargets : copies[1].Dest = GetRenderTargetTexture(rt)

C2_Witness ==
    /\ pc = "L131"
    /\ steps = ExpectedSteps
    /\ Len(copies) = 1

\* A step of UpdateResults that did nothing but return.
NoOpReturn ==
    /\ pc' = "idle"
    /\ UNCHANGED << bCachedParamsAreValid, cachedParams >>
    /\ steps = << >> /\ dispatches = << >> /\ copies = << >>
    /\ count'.FindFreeElement = count.FindFreeElement
    /\ count'.AddPass = count.AddPass
    /\ count'.Dispatch = count.Dispatch
    /\ count'.CopyTexture = count.CopyTexture

\* C3: the guard returns without any effect when bCachedParamsAreValid is
\* false or when cachedParams.RenderTarget is null; in every other case it
\* lets UpdateResults proceed, and past the guard UpdateResults returns only
\* from its last line.
C3_GuardNoOp ==
    [][ /\ (pc = "L81a" /\ pc' # pc /\ ~bCachedParamsAreValid) => NoOpReturn
        /\ (pc = "L81b" /\ pc' # pc /\ cachedParams.RenderTarget = NullRT)
              => NoOpReturn
        /\ (pc = "L81a" /\ pc' # pc /\ bCachedParamsAreValid) => pc' = "L81b"
        /\ (pc = "L81b" /\ pc' # pc /\ cachedParams.RenderTarget # NullRT)
              => pc' = "L87"
        /\ (pc \in PastGuard /\ pc' = "idle") => (pc = "L131" /\ copies # << >>)
      ]_vars

C3_Witness ==
    /\ pc = "idle" /\ gpc = "idle"
    /\ count.UpdateResults = 2 /\ count.Skipped = 2
    /\ bCachedParamsAreValid /\ cachedParams.RenderTarget = NullRT
    /\ count.FindFreeElement = 0 /\ count.Dispatch = 0 /\ count.CopyTexture = 0

\* C4 (as claimed): while EndRendering has returned and BeginRendering has
\* not been called again, no dispatch and no copy happens.
C4_EndRenderingStops ==
    [][ (hist.ended /\ hist'.ended) =>
          /\ count'.Dispatch = count.Dispatch
          /\ count'.CopyTexture = count.CopyTexture ]_vars

\* C5: whenever UpdateResults is past its guard it runs on the rendering
\* thread, so the assertion of line 87 has not failed.
C5_RenderThreadAssertion ==
    /\ pc \in PastGuard => runner = "RenderThread"
    /\ ~hist.assertFailed

C5_Witness == pc = "L90" /\ runner = "RenderThread"

\* C6: every dispatch launches (gx, gy, 1) groups where, with the group size
\* the shader is compiled with, gx and gy are the smallest counts covering
\* the extent of the texture: g * size >= extent > (g - 1) * size, and an
\* extent of 0 gives 0 groups.
C6_ThreadGroupCount ==
    \A i \in 1..Len(dispatches) :
      LET d == dispatches[i]
          g == d.ThreadGroupCount
          env == ModifyCompilationEnvironment
      IN  /\ Len(g) = 3
          /\ d.Extent = << cachedParams.SizeX, cachedParams.SizeY >>
          /\ g[1] >= 0 /\ g[2] >= 0
          /\ g[1] * env.THREADGROUPSIZE_X >= d.Extent[1]
          /\ (g[1] - 1) * env.THREADGROUPSIZE_X < d.Extent[1]
          /\ g[2] * env.THREADGROUPSIZE_Y >= d.Extent[2]
          /\ (g[2] - 1) * env.THREADGROUPSIZE_Y < d.Extent[2]
          /\ g[3] = 1 /\ env.THREADGROUPSIZE_Z = 1
          /\ (d.Extent[1] = 0 => g[1] = 0)
          /\ (d.Extent[2] = 0 => g[2] = 0)

C6_Witness ==
    /\ Len(dispatches) = 1
    /\ dispatches[1].Extent = << 33, 0 >>
    /\ dispatches[1].ThreadGroupCount = << 2, 0, 1 >>

\* C7: a command during whose execution no UpdateParameters call is in
\* progress works on the parameters of the last UpdateParameters call that
\* completed before it ran (argParams), whatever was cached when it was
\* enqueued: render target, extent, thread-group count and copy destination.
C7_UsesLiveParams ==
    (~hist.overlap /\ pc \in PastGuard) =>
      /\ argParams.RenderTarget # NullRT
      /\ loc.OutTexture # None =>
           loc.OutTexture = GetRenderTargetTexture(argParams.RenderTarget)
      /\ loc.Extent # None =>
           loc.Extent = << argParams.SizeX, argParams.SizeY >>
      /\ \A i \in 1..Len(dispatches) :
           /\ dispatches[i].Extent = << argParams.SizeX, argParams.SizeY >>
           /\ dispatches[i].ThreadGroupCount =
                << DivideAndRoundUp(argParams.SizeX, NUM_THREADS_PER_GROUP_DIMENSION),
                   DivideAndRoundUp(argParams.SizeY, NUM_THREADS_PER_GROUP_DIMENSION),
                   1 >>
      /\ \A i \in 1..Len(copies) :
           copies[i].Dest = GetRenderTargetTexture(argParams.RenderTarget)

C7_Witness ==
    /\ pc = "L131" /\ ~hist.overlap
    /\ Len(dispatches) = 1 /\ Len(copies) = 1
    /\ cur.valid
    /\ cur.params.RenderTarget \in RenderTargets \ {argParams.RenderTarget}
    /\ copies[1].Dest = GetRenderTargetTexture(argParams.RenderTarget)

\* C8 (as claimed): where UpdateResults dereferences cachedParams.RenderTarget
\* after the guard (lines 90 and 92), the pointer is not null.
C8_RenderTargetNonNull ==
    pc \in {"L90", "L92"} => cachedParams.RenderTarget # NullRT

====
